---------------------------- MODULE Spec2Model ----------------------------
(***************************************************************************)
(* A model of lsst.sims.movingObjects:                                     *)
(*   chebyshev.py   - v_three_sixy_to_neg, ChebyFits._setGranularity,      *)
(*                    ChebyFits._updateGranularity                         *)
(*   chebyValues.py - ChebyValues.setCoefficients, readCoefficients,       *)
(*                    _evalSegment, getEphemerides                         *)
(*                                                                         *)
(* Python floats are modelled as exact rationals [n, d] in lowest terms.   *)
(* Every value the granularity code produces is a first-pass timestep      *)
(* (a power of two) divided by small integers, and length is the same      *)
(* value scaled by 64, so no rounding separates the two within the number  *)
(* of refinements explored here.                                           *)
(*                                                                         *)
(* chebyshev.py is modelled function by function.  As a module it does not *)
(* load: line 4 (import .chebyshevUtils as cheb) is not valid syntax and   *)
(* line 18 reads the undefined name three_sixy_to_neg, so v_360_to_neg,    *)
(* the array form of the unwrap helper, is never bound.  ChebyFits.__init__*)
(* raises UnboundLocalError at line 43 on every call.                      *)
(***************************************************************************)
EXTENDS Integers, Sequences, FiniteSets, TLC

VARIABLES
    \* ChebyFits (chebyshev.py)
    skyTolerance,   \* self.skyTolerance
    attrs,          \* names of the granularity attributes that exist on self
    ngran,          \* self.ngran      (meaningful when "ngran" \in attrs)
    timestep,       \* self.timestep   (meaningful when "timestep" \in attrs)
    length,         \* self.length     (meaningful when "length" \in attrs)
    lastGran,       \* the last granularity call: arguments, outcome, values before it
    nUpdates,       \* number of _updateGranularity calls made so far
    \* ChebyValues (chebyValues.py)
    coeffs,         \* self.coeffs: column name -> column
    lastLoad,       \* the last setCoefficients / readCoefficients call and its outcome
    call,           \* the last getEphemerides call and its outcome
    \* right-ascension unwrap helper (chebyshev.py)
    args,           \* the arguments (element, min, max) of one call, << >> when none
    returned        \* <<value returned>> by v_three_sixy_to_neg, <<>> before the call

fitsVars   == <<skyTolerance, attrs, ngran, timestep, length, lastGran, nUpdates>>
valuesVars == <<coeffs, lastLoad, call>>
unwrapVars == <<args, returned>>
vars       == <<skyTolerance, attrs, ngran, timestep, length, lastGran, nUpdates,
                coeffs, lastLoad, call, args, returned>>

---------------------------------------------------------------------------
(* Exact rationals standing for Python floats.                             *)

RECURSIVE GCD(_, _)
GCD(a, b) == IF b = 0 THEN a ELSE GCD(b, a % b)

Abs(x) == IF x < 0 THEN -x ELSE x

\* n/d in lowest terms, d > 0.
Rat(n, d) == LET g == GCD(Abs(n), d) IN [n |-> n \div g, d |-> d \div g]

RatLT(a, b) == a.n * b.d < b.n * a.d
RatLE(a, b) == a.n * b.d <= b.n * a.d
RatGT(a, b) == RatLT(b, a)
\* a / k and k * a for a positive integer k
RatDiv(a, k) == Rat(a.n, a.d * k)
RatMul(k, a) == Rat(k * a.n, a.d)

Zero == Rat(0, 1)

---------------------------------------------------------------------------
(* ChebyFits: the granularity controller.                                  *)

\* Bound of the model: _updateGranularity calls explored on one object.
MaxUpdates == 2

\* self.ngran = 64 (lines 98 and 117)
NGran == 64
\* the declination beyond which the window is halved once more (line 144)
PoleDec == 75

\* Angular speeds (degrees/day) fed to _setGranularity: one in every band of
\* the docstring table and the band edges 0.8 and 102.4.
Speeds == { Rat(0, 1), Rat(1, 2), Rat(8, 10), Rat(1, 1), Rat(2, 1), Rat(5, 1),
            Rat(10, 1), Rat(20, 1), Rat(40, 1), Rat(80, 1), Rat(1024, 10),
            Rat(200, 1) }

\* Positional residuals (mas) fed to _updateGranularity: both sides of every
\* threshold, and the values 2.5 (the default tolerance) and 20.
Residuals == { Rat(0, 1), Rat(3, 2), Rat(2, 1), Rat(5, 2), Rat(3, 1), Rat(5, 1),
               Rat(6, 1), Rat(15, 1), Rat(20, 1), Rat(100, 1), Rat(101, 1),
               Rat(1000, 1), Rat(1001, 1) }

\* Declinations (degrees) fed to _updateGranularity.
Decs == { -90, -80, -76, -75, 0, 75, 76 }

\* Values of the constructor's skyTolerance argument: a tight one and the default 2.5.
DefaultSkyTolerance == Rat(5, 2)    \* skyTolerance=2.5, line 41
SkyTolerances == { Rat(1, 1), DefaultSkyTolerance }

\* What the name `distance` is bound to where _setGranularity reads it
\* (lines 101-113): the method's parameter is distance_moved, it assigns no
\* local of that name and the module defines no global one, so the name is
\* unbound.  <<>> is "unbound"; <<v>> is "bound to v".
distance == <<>>

\* Lines 99-116: the if/elif chain that picks the first-pass timestep.
\* <<t>> is the timestep assigned; <<>> is the NameError raised when a branch
\* condition reads an unbound name.
FirstPassTimestep(distance_moved, dist) ==
    IF RatLT(distance_moved, Rat(8, 10)) THEN << Rat(1, 32) >>
    ELSE IF dist = <<>> THEN <<>>
    ELSE IF RatLT(dist[1], Rat(16, 10)) THEN << Rat(1, 64) >>
    ELSE IF RatLT(dist[1], Rat(32, 10)) THEN << Rat(1, 128) >>
    ELSE IF RatLT(dist[1], Rat(64, 10)) THEN << Rat(1, 256) >>
    ELSE IF RatLT(dist[1], Rat(128, 10)) THEN << Rat(1, 512) >>
    ELSE IF RatLT(dist[1], Rat(256, 10)) THEN << Rat(1, 1024) >>
    ELSE IF RatLT(dist[1], Rat(512, 10)) THEN << Rat(1, 2048) >>
    ELSE IF RatLT(dist[1], Rat(1024, 10)) THEN << Rat(1, 4096) >>
    ELSE << Rat(1, 8192) >>

\* ChebyFits._setGranularity(distance_moved), lines 98-118.
_setGranularity(distance_moved) ==
    LET ts == FirstPassTimestep(distance_moved, distance) IN
    /\ ngran' = NGran
    /\ IF ts # <<>>
          THEN /\ timestep' = ts[1]
               /\ length' = RatMul(NGran, ts[1])
               /\ attrs' = attrs \cup {"ngran", "timestep", "length"}
          ELSE /\ timestep' = timestep
               /\ length' = length
               /\ attrs' = attrs \cup {"ngran"}
    /\ lastGran' = [ op |-> "_setGranularity",
                     status |-> IF ts # <<>> THEN "ok" ELSE "NameError",
                     distance_moved |-> distance_moved,
                     p_resid |-> Zero, dec |-> 0,
                     hadTimestep |-> "timestep" \in attrs,
                     prevTimestep |-> timestep, prevLength |-> length ]
    /\ UNCHANGED <<skyTolerance, nUpdates>>

\* A plausible slip in the residual table: the 15 mas band returns the 5 mas factor.
ShrinkFactorMutant(p_resid) ==
    IF RatGT(p_resid, Rat(1000, 1)) THEN 16
    ELSE IF RatGT(p_resid, Rat(100, 1)) THEN 8
    ELSE IF RatGT(p_resid, Rat(15, 1)) THEN 4
    ELSE IF RatGT(p_resid, Rat(5, 1)) THEN 4
    ELSE IF RatGT(p_resid, Rat(2, 1)) THEN 2
    ELSE 1

\* Lines 130-140: the shrink factor as a function of the residual.
ShrinkFactor(p_resid) ==
    IF RatGT(p_resid, Rat(1000, 1)) THEN 16
    ELSE IF RatGT(p_resid, Rat(100, 1)) THEN 8
    ELSE IF RatGT(p_resid, Rat(15, 1)) THEN 6
    ELSE IF RatGT(p_resid, Rat(5, 1)) THEN 4
    ELSE IF RatGT(p_resid, Rat(2, 1)) THEN 2
    ELSE 1

\* Line 144: the test for "chance to go over poles".
OverPole(dec) == dec < -PoleDec \/ dec > PoleDec

\* ChebyFits._updateGranularity(p_resid, dec), lines 130-146.  Reading
\* self.timestep on an object on which no _setGranularity call has assigned
\* it raises AttributeError at line 141 and changes nothing.
_updateGranularity(p_resid, dec) ==
    LET factor == ShrinkFactor(p_resid)
        has    == "timestep" \in attrs
        t1     == RatDiv(timestep, factor)
        l1     == RatDiv(length, factor)
    IN
    /\ nUpdates < MaxUpdates
    /\ nUpdates' = nUpdates + 1
    /\ timestep' = IF ~has THEN timestep
                   ELSE IF OverPole(dec) THEN RatDiv(t1, 2) ELSE t1
    /\ length' = IF ~has THEN length
                 ELSE IF OverPole(dec) THEN RatDiv(l1, 2) ELSE l1
    /\ lastGran' = [ op |-> "_updateGranularity",
                     status |-> IF has THEN "ok" ELSE "AttributeError",
                     distance_moved |-> Zero,
                     p_resid |-> p_resid, dec |-> dec,
                     hadTimestep |-> has,
                     prevTimestep |-> timestep, prevLength |-> length ]
    /\ UNCHANGED <<skyTolerance, attrs, ngran>>

\* No ChebyFits instance: none of its fields exists.
NoFits ==
    /\ skyTolerance = Zero
    /\ attrs = {}
    /\ ngran = 0
    /\ timestep = Zero
    /\ length = Zero
    /\ nUpdates = 0
    /\ lastGran = [ op |-> "none", status |-> "ok", distance_moved |-> Zero,
                    p_resid |-> Zero, dec |-> 0, hadTimestep |-> FALSE,
                    prevTimestep |-> Zero, prevLength |-> Zero ]

\* ChebyFits.__init__(skyTolerance, ephFile), lines 42-45.  Line 42 assigns
\* self.skyTolerance.  Line 43 reads ephfile, which line 44 makes a local of
\* the function and nothing has bound (the parameter is ephFile), so it
\* raises UnboundLocalError whatever the arguments: self.pyephems is never
\* set and the expression ChebyFits(...) hands no object to its caller.
\* What remains is self with skyTolerance as its only field.
InitFits(tol) ==
    /\ skyTolerance' = tol
    /\ attrs' = attrs \cup {"skyTolerance"}
    /\ lastGran' = [ op |-> "__init__", status |-> "UnboundLocalError",
                     distance_moved |-> Zero, p_resid |-> Zero, dec |-> 0,
                     hadTimestep |-> FALSE,
                     prevTimestep |-> timestep, prevLength |-> length ]
    /\ UNCHANGED <<ngran, timestep, length, nUpdates>>

---------------------------------------------------------------------------
(* The right-ascension unwrap helper.                                      *)

\* Right ascensions (degrees) around the two thresholds 100 and 270.
RAValues == { 0, 50, 99, 100, 269, 270, 271, 359 }

\* The same helper with the element test off by one (>= instead of >).
v_three_sixy_to_neg_mutant(element, min, max) ==
    IF (min < 100) /\ (max > 270)
        THEN IF element >= 270 THEN element - 360 ELSE element
        ELSE element

\* v_three_sixy_to_neg(element, min, max), lines 10-17.
v_three_sixy_to_neg(element, min, max) ==
    IF (min < 100) /\ (max > 270)
        THEN IF element > 270 THEN element - 360 ELSE element
        ELSE element

SeqRange(s) == { s[i] : i \in DOMAIN s }

\* No call of the helper.
NoArgs == << >>
NoUnwrap ==
    /\ args = NoArgs
    /\ returned = <<>>

\* The arguments of one call.
InitArgs(element, min, max) ==
    /\ args = [ element |-> element, min |-> min, max |-> max ]
    /\ returned = <<>>

\* One call v_three_sixy_to_neg(element, min, max).  The helper works on one
\* element; nothing in the module applies it to a whole window (line 18, which
\* would have bound v_360_to_neg for that, raises NameError), so min and max
\* are arguments like element.
CallHelper ==
    /\ args # NoArgs
    /\ returned = <<>>
    /\ returned' = << v_three_sixy_to_neg(args.element, args.min, args.max) >>
    /\ UNCHANGED args

---------------------------------------------------------------------------
(* ChebyValues: the coefficient table.                                     *)

\* Bounds of the model: segments per object, segment length, query times.
MaxSegs == 2
MaxLen == 2
MaxTime == 6

\* Object ids that may own segments, and the ids a caller may ask for
\* (3 never owns a segment).
TableIds == {1, 2}
RequestIds == {1, 2, 3}
\* First tStart of an object, and the distance from one segment's tEnd to the
\* next segment's tStart: -1 overlaps, 0 is contiguous, 1 leaves a gap.
Starts == {0, 1}
Gaps == {-1, 0, 1}
Times == 0..MaxTime

\* self.coeffKeys and self.ephemerisKeys (lines 17-18), and coeff_cols (line 54).
coeffKeys == <<"objId", "tStart", "tEnd", "ra", "dec", "delta", "vmag", "elongation">>
ephemerisKeys == <<"ra", "dradt", "dec", "ddecdt", "delta", "vmag", "elongation">>
coeff_cols == <<"ra", "dec", "delta", "vmag", "elongation">>

\* The segments of object o: n of them, each len long, the first starting at
\* start.  c0 is the segment's single (degree 0) ra coefficient; it is never 0
\* and differs between any two segments of a table.
Segs(o, n, start, len, gap) ==
    [ j \in 1..n |-> [ objId  |-> o,
                       tStart |-> start + (j - 1) * (len + gap),
                       tEnd   |-> start + (j - 1) * (len + gap) + len,
                       c0     |-> 10 * o + j ] ]

ObjSegs(o) ==
    { <<>> } \cup { Segs(o, 1, s, l, 0) : s \in Starts, l \in 1..MaxLen }
             \cup { Segs(o, n, s, l, g) :
                      n \in 2..MaxSegs, s \in Starts, l \in 1..MaxLen, g \in Gaps }

\* The tables: the rows of object 1, then those of object 2; at least one row.
Tables == { a \o b : a \in ObjSegs(1), b \in ObjSegs(2) } \ { <<>> }

\* The coefficient of quantity k stored for a row (all five differ).
QuantityCoeff(row, k) ==
    row.c0 + (CASE k = "ra" -> 0 [] k = "dec" -> 100 [] k = "delta" -> 200
                [] k = "vmag" -> 300 [] k = "elongation" -> 400)

\* One column of ChebyFits.coeffs, shaped as setCoefficients expects it:
\* objId, tStart, tEnd are [segment]; a quantity is [segment, coeff].
FitsColumn(rows, k) ==
    [ i \in 1..Len(rows) |->
        CASE k = "objId"  -> rows[i].objId
          [] k = "tStart" -> rows[i].tStart
          [] k = "tEnd"   -> rows[i].tEnd
          [] OTHER        -> << QuantityCoeff(rows[i], k) >> ]

\* chebyFits.coeffs holding the columns named in keys.
FitsCoeffs(rows, keys) == [ k \in keys |-> FitsColumn(rows, k) ]

\* dict item assignment d[k] = v
Put(d, k, v) == (k :> v) @@ d

\* a.swapaxes(0, 1) of an array a of shape (p, q)
Swapaxes(a, p, q) == [ i \in 1..q |-> [ j \in 1..p |-> a[j][i] ] ]

\* Line 34: set(self.coeffKeys) - set(self.coeffs)
MissingKeys(c) == SeqRange(coeffKeys) \ (DOMAIN c)

\* ChebyValues.setCoefficients(chebyFits), lines 29-37; fitsCoeffs is
\* chebyFits.coeffs.  The assignment of line 29 stands when line 35 raises.
setCoefficients(fitsCoeffs) ==
    LET n    == Len(fitsCoeffs[CHOOSE k \in DOMAIN fitsCoeffs : TRUE])
        bad  == Cardinality(MissingKeys(fitsCoeffs)) > 0
        mRA  == Swapaxes(fitsCoeffs["ra"], n, 1)[1]
        mDec == Swapaxes(fitsCoeffs["dec"], n, 1)[1]
    IN
    /\ coeffs' = IF bad THEN fitsCoeffs
                 ELSE Put(Put(fitsCoeffs, "meanRA", mRA), "meanDec", mDec)
    /\ lastLoad' = [ op |-> "setCoefficients",
                     status |-> IF bad THEN "ValueError" ELSE "ok",
                     given |-> DOMAIN fitsCoeffs ]
    /\ call' = [ op |-> "none" ]

---------------------------------------------------------------------------
(* readCoefficients: the file is modelled as the data frame pandas parses  *)
(* from it, a map from column name to column.                              *)

\* '%s_%d' % (k, 0): the name of the coefficient column of quantity k.  The
\* tables of this model hold one coefficient per quantity.
CoeffColumn(k) ==
    CASE k = "ra" -> "ra_0" [] k = "dec" -> "dec_0" [] k = "delta" -> "delta_0"
      [] k = "vmag" -> "vmag_0" [] k = "elongation" -> "elongation_0"

\* x.startswith(k) for a column name x of such a file: objId, tStart, tEnd
\* start with none of the five quantity names, and of ra_0, dec_0, delta_0,
\* vmag_0, elongation_0 each starts with its own quantity name only.
startswith(x, k) == x = CoeffColumn(k)

\* The column name that carries key k in a file.
FileColumn(k) == IF k \in SeqRange(coeff_cols) THEN CoeffColumn(k) ELSE k

\* The data frame of a file written from rows, holding the columns of keys.
DataFrame(rows, keys) ==
    [ x \in { FileColumn(k) : k \in keys } |->
        [ i \in 1..Len(rows) |->
            CASE x = "objId"  -> rows[i].objId
              [] x = "tStart" -> rows[i].tStart
              [] x = "tEnd"   -> rows[i].tEnd
              [] OTHER        ->
                   QuantityCoeff(rows[i], CHOOSE k \in SeqRange(coeff_cols) : x = CoeffColumn(k)) ] ]

\* Lines 55-56: cols[k] = [x for x in datacols if x.startswith(k)]
ColsOf(frame, k) ==
    IF \E x \in DOMAIN frame : startswith(x, k) THEN << CoeffColumn(k) >> ELSE <<>>

\* Lines 62-65 for one quantity: the array of shape [coeff, segment].
QuantityArray(frame, k) ==
    [ i \in 1..Len(ColsOf(frame, k)) |-> frame[ColsOf(frame, k)[i]] ]

RECURSIVE PutQuantities(_, _, _)
\* Lines 62-65: self.coeffs[k] for k = coeff_cols[j], coeff_cols[j+1], ...
PutQuantities(c, frame, j) ==
    IF j > Len(coeff_cols) THEN c
    ELSE PutQuantities(Put(c, coeff_cols[j], QuantityArray(frame, coeff_cols[j])),
                       frame, j + 1)

RECURSIVE SwapQuantities(_, _, _, _)
\* Lines 70-71: every quantity swapped to [segment, coeff]; n is len(coeffs).
SwapQuantities(c, frame, n, j) ==
    IF j > Len(coeff_cols) THEN c
    ELSE SwapQuantities(
             Put(c, coeff_cols[j],
                 Swapaxes(c[coeff_cols[j]], Len(ColsOf(frame, coeff_cols[j])), n)),
             frame, n, j + 1)

\* ChebyValues.readCoefficients(chebyFitsFile), lines 47-71.  exists is
\* os.path.isfile(chebyFitsFile); frame is the parsed file; n its row count.
\* self.coeffs is updated in place, so what was assigned before an exception
\* stays assigned.
readCoefficients(exists, frame, n) ==
    LET c1 == Put(coeffs, "objId", frame["objId"])
        c2 == Put(c1, "tStart", frame["tStart"])
        c3 == Put(c2, "tEnd", frame["tEnd"])
        c4 == PutQuantities(c3, frame, 1)
        c5 == Put(c4, "meanRA", c4["ra"][1])
        c6 == Put(c5, "meanDec", c5["dec"][1])
        c7 == SwapQuantities(c6, frame, n, 1)
        out == IF ~exists THEN <<"IOError", coeffs>>
               ELSE IF "objId" \notin DOMAIN frame THEN <<"AttributeError", coeffs>>
               ELSE IF "tStart" \notin DOMAIN frame THEN <<"AttributeError", c1>>
               ELSE IF "tEnd" \notin DOMAIN frame THEN <<"AttributeError", c2>>
               ELSE IF Len(c4["ra"]) = 0 THEN <<"IndexError", c4>>
               ELSE IF Len(c5["dec"]) = 0 THEN <<"IndexError", c5>>
               ELSE <<"ok", c7>>
    IN
    /\ coeffs' = out[2]
    /\ lastLoad' = [ op |-> "readCoefficients", status |-> out[1],
                     given |-> IF exists THEN DOMAIN frame ELSE {} ]
    /\ call' = [ op |-> "none" ]

\* ChebyValues.__init__, lines 16-18: self.coeffs = {}
InitValues ==
    /\ coeffs = << >>
    /\ lastLoad = [ op |-> "__init__", status |-> "ok", given |-> {} ]
    /\ call = [ op |-> "none" ]

---------------------------------------------------------------------------
(* ChebyValues: segment lookup and evaluation.                             *)

\* objIds=None, the default of getEphemerides.  A request that names ids is
\* a non-empty sequence of ids, so the empty sequence is free to stand for None.
None == << >>

\* The id arrays a caller passes: distinct ids, in any order.
Requests ==
    { q \in UNION { [1..n -> RequestIds] : n \in 1..Cardinality(RequestIds) } :
        \A i, j \in DOMAIN q : i # j => q[i] # q[j] }

RECURSIVE Where(_, _)
\* np.where(mask)[0] from position i on: the positions holding TRUE, ascending.
Where(mask, i) ==
    IF i > Len(mask) THEN <<>>
    ELSE (IF mask[i] THEN <<i>> ELSE <<>>) \o Where(mask, i + 1)

\* The array holding the entries of f (f is evaluated once, here).
Arr(f) == f \o << >>

\* a[mask]: the entries of a at the positions where mask holds.
Masked(a, mask) ==
    LET w == Where(mask, 1) IN Arr([ j \in 1..Len(w) |-> a[w[j]] ])

RECURSIVE SortedSeq(_)
SortedSeq(S) ==
    IF S = {} THEN <<>>
    ELSE LET m == CHOOSE x \in S : \A y \in S : x <= y
         IN <<m>> \o SortedSeq(S \ {m})

\* np.unique(a): the distinct values of a, sorted.
Unique(a) == SortedSeq(SeqRange(a))

\* The lookup test with a closed right end.
CoversMutant(tStart, tEnd, time) == (tStart <= time) /\ (tEnd >= time)

\* Line 139: (tStart <= time) & (tEnd > time)
Covers(tStart, tEnd, time) == (tStart <= time) /\ (tEnd > time)

\* chebyshevUtils.chebeval for a single-coefficient (degree 0) expansion:
\* the value is the coefficient and the velocity is 0.
chebeval(tScaled, c) == [ value |-> c[1], velocity |-> 0 ]

\* Lines 95-110 of _evalSegment, given the segment's tStart, tEnd and its
\* coefficients by quantity.  [ok |-> FALSE] is the ValueError of line 96.
\* Line 106 multiplies dradt by cos(radians(dec)): that leaves the velocity 0
\* of a degree 0 expansion at 0.
EvalAt(time, tStart, tEnd, c) ==
    IF (time < tStart) \/ (time > tEnd)
        THEN [ ok |-> FALSE ]
        ELSE [ ok |-> TRUE,
               ephemeris |->
                 [ ra         |-> chebeval(time - tStart, c["ra"]).value,
                   dradt      |-> chebeval(time - tStart, c["ra"]).velocity,
                   dec        |-> chebeval(time - tStart, c["dec"]).value,
                   ddecdt     |-> chebeval(time - tStart, c["dec"]).velocity,
                   delta      |-> chebeval(time - tStart, c["delta"]).value,
                   vmag       |-> chebeval(time - tStart, c["vmag"]).value,
                   elongation |-> chebeval(time - tStart, c["elongation"]).value ] ]

\* ChebyValues._evalSegment(segmentIdx, time, subsetSegments), lines 93-110.
_evalSegment(segmentIdx, time, subsetSegments) ==
    EvalAt(time,
           Masked(coeffs["tStart"], subsetSegments)[segmentIdx],
           Masked(coeffs["tEnd"], subsetSegments)[segmentIdx],
           [ k \in SeqRange(coeff_cols) |-> Masked(coeffs[k], subsetSegments)[segmentIdx] ])

\* Lines 129 and 134: the rows of the table that belong to a requested object.
ObjMatch(objIds) ==
    IF objIds = None
        THEN Arr([ i \in 1..Len(coeffs["objId"]) |-> TRUE ])
        ELSE Arr([ i \in 1..Len(coeffs["objId"]) |-> coeffs["objId"][i] \in SeqRange(objIds) ])

\* Lines 130 and 135: ephemerides['objId'] before the loop.
EphObjId0(objIds) == IF objIds = None THEN Unique(coeffs["objId"]) ELSE objIds

\* Line 139 on the matched rows' tStart and tEnd: the positions, among the
\* matched rows, of the segments that cover time.
SegmentsWhere(tS, tE, time) ==
    Where(Arr([ j \in 1..Len(tS) |-> Covers(tS[j], tE[j], time) ]), 1)

\* Line 139.
Segments(objMatch, time) ==
    SegmentsWhere(Masked(coeffs["tStart"], objMatch), Masked(coeffs["tEnd"], objMatch), time)

\* Lines 136-138: an array of zeros, one entry per requested id.
Zeros(m) == Arr([ i \in 1..m |-> 0 ])

\* Lines 136-144: the arrays after the loop.  evals[i] is what _evalSegment
\* returns in iteration i and matchedIds is coeffs['objId'][objMatch].  The
\* loop stops at the first iteration that raises: the ValueError of
\* _evalSegment, or the IndexError of writing entry i of arrays of length
\* len(ids0) < i.
Loop(ids0, segments, evals, matchedIds) ==
    LET m == Len(ids0)
        raised == { i \in 1..Len(segments) : ~evals[i].ok \/ i > m }
        done == IF raised = {} THEN Len(segments)
                ELSE (CHOOSE i \in raised : \A j \in raised : i <= j) - 1
        col(k) == Arr([ i \in 1..m |-> IF i <= done THEN evals[i].ephemeris[k] ELSE Zeros(m)[i] ])
    IN [ error |-> IF raised = {} THEN "none"
                   ELSE IF ~evals[done + 1].ok THEN "ValueError" ELSE "IndexError",
         objId |-> Arr([ i \in 1..m |-> IF i <= done THEN matchedIds[segments[i]] ELSE ids0[i] ]),
         ra |-> col("ra"), dradt |-> col("dradt"), dec |-> col("dec"),
         ddecdt |-> col("ddecdt"), delta |-> col("delta"), vmag |-> col("vmag"),
         elongation |-> col("elongation") ]

\* Line 135 binds ephemerides['objId'] to the caller's own array (np.array is
\* applied only to a str or an int), so the writes of line 144 reach objIds
\* as well: when line 146 runs, objIds is the array ephObjId.
ObjIdsAtCheck(objIds, ephObjId) == ephObjId

\* Lines 145-147: whether the final check raises ValueError.
Mismatch(objIds, ephObjId) ==
    /\ objIds # None
    /\ SeqRange(ephObjId) # SeqRange(ObjIdsAtCheck(objIds, ephObjId))

\* What a call leaves behind: its arguments, the lookup of line 139, the
\* exception raised if any, and the dictionary returned otherwise.
Outcome(time, objIds, objMatch, segments, arrays) ==
    LET status == IF arrays.error # "none" THEN arrays.error
                  ELSE IF Mismatch(objIds, arrays.objId) THEN "ValueError"
                  ELSE "ok"
    IN [ op |-> "getEphemerides", status |-> status, time |-> time, objIds |-> objIds,
         objMatch |-> objMatch, segments |-> segments,
         ephemerides |->
            IF status = "ok"
               THEN [ objId |-> arrays.objId,
                      time |-> Arr([ i \in 1..Len(arrays.objId) |-> time ]),
                      ra |-> arrays.ra, dradt |-> arrays.dradt, dec |-> arrays.dec,
                      ddecdt |-> arrays.ddecdt, delta |-> arrays.delta,
                      vmag |-> arrays.vmag, elongation |-> arrays.elongation ]
               ELSE [ objId |-> <<>> ] ]

\* Lines 139-144, given the segments line 139 selected.
WithSegments(time, objIds, objMatch, ids0, segments) ==
    Outcome(time, objIds, objMatch, segments,
            Loop(ids0, segments,
                 Arr([ i \in 1..Len(segments) |-> _evalSegment(segments[i], time, objMatch) ]),
                 Masked(coeffs["objId"], objMatch)))

\* Lines 127-148, given objMatch.
WithMatch(time, objIds, objMatch) ==
    WithSegments(time, objIds, objMatch, EphObjId0(objIds), Segments(objMatch, time))

\* ChebyValues.getEphemerides(time, objIds), lines 127-148.  On an object
\* whose coeffs lack objId, tStart or tEnd the first read of the missing key
\* raises KeyError.
getEphemerides(time, objIds) ==
    /\ call' = IF {"objId", "tStart", "tEnd"} \subseteq DOMAIN coeffs
                  THEN WithMatch(time, objIds, ObjMatch(objIds))
                  ELSE [ op |-> "getEphemerides", status |-> "KeyError", time |-> time,
                         objIds |-> objIds, objMatch |-> <<>>, segments |-> <<>>,
                         ephemerides |-> [ objId |-> <<>> ] ]
    /\ UNCHANGED <<coeffs, lastLoad>>

---------------------------------------------------------------------------
(* Specifications.                                                         *)

\* A caller loads a complete table (every key) into a freshly constructed
\* object and then asks for ephemerides.  What a query returns depends on the
\* loaded table and the arguments only, and a load replaces the table, so one
\* load and one query per behaviour reach every state that further loads and
\* queries reach.
SetCoefficients ==
    /\ lastLoad.op = "__init__"
    /\ \E rows \in Tables : setCoefficients(FitsCoeffs(rows, SeqRange(coeffKeys)))
    /\ UNCHANGED <<fitsVars, unwrapVars>>

GetEphemerides ==
    /\ call.op = "none"
    /\ \E time \in Times, objIds \in Requests \cup {None} : getEphemerides(time, objIds)
    /\ UNCHANGED <<fitsVars, unwrapVars>>

\* Segment lookup and evaluation on loaded tables.
Init == InitValues /\ NoFits /\ NoUnwrap
Next == SetCoefficients \/ GetEphemerides
Spec == Init /\ [][Next]_vars

\* Inputs of the two load paths: one-row tables, with every key or with one
\* of the eight required keys left out.
LoadTables == { t \in Tables : Len(t) = 1 /\ t[1].tStart = 0 }
KeySets == { SeqRange(coeffKeys) } \cup { SeqRange(coeffKeys) \ {k} : k \in SeqRange(coeffKeys) }

LoadFromFits ==
    /\ \E rows \in LoadTables, keys \in KeySets : setCoefficients(FitsCoeffs(rows, keys))
    /\ UNCHANGED <<fitsVars, unwrapVars>>

LoadFromFile ==
    /\ \E rows \in LoadTables, keys \in KeySets, exists \in BOOLEAN :
          readCoefficients(exists, DataFrame(rows, keys), Len(rows))
    /\ UNCHANGED <<fitsVars, unwrapVars>>

InitLoad == Init
NextLoad == LoadFromFits \/ LoadFromFile
SpecLoad == InitLoad /\ [][NextLoad]_vars

\* The granularity controller.  ChebyFits(...) never returns an instance
\* (see InitFits), and nothing in the class calls _setGranularity or
\* _updateGranularity (_calcCoeffs is a stub).  The two methods read and
\* write fields of self only, so they are followed here on the instance
\* __init__ was working on when it raised, the only ChebyFits instance
\* there can be, as a caller that allocated it by ChebyFits.__new__ and
\* invoked __init__ on it itself would hold it.
Construct ==
    /\ lastGran.op = "none"
    /\ \E tol \in SkyTolerances : InitFits(tol)
    /\ UNCHANGED <<valuesVars, unwrapVars>>

SetGranularity ==
    /\ lastGran.op # "none"
    /\ \E distance_moved \in Speeds : _setGranularity(distance_moved)
    /\ UNCHANGED <<valuesVars, unwrapVars>>

UpdateGranularity ==
    /\ lastGran.op # "none"
    /\ \E p_resid \in Residuals, dec \in Decs : _updateGranularity(p_resid, dec)
    /\ UNCHANGED <<valuesVars, unwrapVars>>

InitGran == InitValues /\ NoUnwrap /\ NoFits
NextGran == Construct \/ SetGranularity \/ UpdateGranularity
SpecGran == InitGran /\ [][NextGran]_vars

\* The unwrap helper on the arguments of one call.
Unwrap == CallHelper /\ UNCHANGED <<fitsVars, valuesVars>>

InitUnwrap ==
    /\ InitValues
    /\ NoFits
    /\ \E element \in RAValues, min \in RAValues, max \in RAValues :
          InitArgs(element, min, max)
NextUnwrap == Unwrap
SpecUnwrap == InitUnwrap /\ [][NextUnwrap]_vars

---------------------------------------------------------------------------
(* Properties of segment lookup and evaluation (specification Spec).       *)

Queried == call.op = "getEphemerides" /\ call.status # "KeyError"

\* The ids that own a row of the loaded table, and the rows of object o.
LoadedIds == SeqRange(coeffs["objId"])
RowsOf(o) == { r \in DOMAIN coeffs["objId"] : coeffs["objId"][r] = o }

\* The rows of o whose right-open interval [tStart, tEnd) holds t.
CoveringRows(o, t) ==
    { r \in RowsOf(o) : coeffs["tStart"][r] <= t /\ t < coeffs["tEnd"][r] }

\* Entry i of the returned arrays is what row r of the table evaluates to.
RecordFromRow(i, r) ==
    /\ call.ephemerides.ra[i] = coeffs["ra"][r][1]
    /\ call.ephemerides.dec[i] = coeffs["dec"][r][1]
    /\ call.ephemerides.delta[i] = coeffs["delta"][r][1]
    /\ call.ephemerides.vmag[i] = coeffs["vmag"][r][1]
    /\ call.ephemerides.elongation[i] = coeffs["elongation"][r][1]

\* C1: a call that names an object id owning no segment of the table raises;
\* no returned result holds a record for an id that owns no segment.
C1_AbsentIdRaises ==
    (Queried /\ call.objIds # None) =>
        /\ (\E id \in SeqRange(call.objIds) : id \notin LoadedIds) => call.status # "ok"
        /\ call.status = "ok" =>
              \A i \in DOMAIN call.ephemerides.objId : call.ephemerides.objId[i] \in LoadedIds

\* C2: for a request of one object of the table, a time equal to the tStart of
\* the one segment that covers it returns that segment's values, and a time
\* that no segment of the object covers (a tEnd no other segment covers
\* included) raises instead of returning a result.
C2_RightOpenRange ==
    (Queried /\ Len(call.objIds) = 1 /\ call.objIds[1] \in LoadedIds) =>
        LET o == call.objIds[1] IN
        /\ \A r \in RowsOf(o) :
              (coeffs["tStart"][r] = call.time /\ CoveringRows(o, call.time) = {r}) =>
                  (call.status = "ok" /\ RecordFromRow(1, r))
        /\ CoveringRows(o, call.time) = {} => call.status # "ok"

\* C3: a returned batch result holds a record for an id only if a segment of
\* that id covers the time, and the record's values are those of that
\* segment; an id without a covering segment gets no record.
C3_BatchRecordsAreCovered ==
    (Queried /\ call.objIds # None /\ call.status = "ok") =>
        \A i \in DOMAIN call.ephemerides.objId :
            \E r \in CoveringRows(call.ephemerides.objId[i], call.time) : RecordFromRow(i, r)

\* The segments of o are contiguous and non-overlapping: each has
\* tStart < tEnd and starts where the one before it in the table ends.
Contiguous(o) ==
    /\ \A r \in RowsOf(o) : coeffs["tStart"][r] < coeffs["tEnd"][r]
    /\ \A r, q \in RowsOf(o) :
          (r < q /\ ~\E x \in RowsOf(o) : r < x /\ x < q) =>
              coeffs["tStart"][q] = coeffs["tEnd"][r]

FirstStart(o) == coeffs["tStart"][CHOOSE r \in RowsOf(o) : \A q \in RowsOf(o) : r <= q]
LastEnd(o) == coeffs["tEnd"][CHOOSE r \in RowsOf(o) : \A q \in RowsOf(o) : r >= q]

\* The table rows the lookup of line 139 selected, and those of object o.
SelectedRows == { Where(call.objMatch, 1)[j] : j \in SeqRange(call.segments) }
SelectedOf(o) == SelectedRows \cap RowsOf(o)

\* C4: when the segments of a looked-up object are contiguous and
\* non-overlapping, every time from its first tStart up to, not including,
\* its last tEnd selects exactly one segment of that object.
C4_BoundaryExclusivity ==
    Queried =>
        \A o \in LoadedIds :
            ( /\ (call.objIds = None \/ o \in SeqRange(call.objIds))
              /\ Contiguous(o)
              /\ FirstStart(o) <= call.time /\ call.time < LastEnd(o) )
            => Cardinality(SelectedOf(o)) = 1

\* A query at the tStart of the second of two contiguous segments, which is
\* the tEnd of the first, selected the second segment alone.
C4_Witness ==
    /\ Queried
    /\ \E o \in LoadedIds : \E r, q \in RowsOf(o) :
          /\ Contiguous(o) /\ r < q
          /\ (call.objIds = None \/ o \in SeqRange(call.objIds))
          /\ coeffs["tEnd"][r] = call.time /\ coeffs["tStart"][q] = call.time
          /\ SelectedOf(o) = {q}

---------------------------------------------------------------------------
(* Properties of the granularity controller (specification SpecGran).      *)

Updated == lastGran.op = "_updateGranularity" /\ lastGran.status = "ok"

\* C5: _setGranularity yields a timestep for every speed; a faster speed
\* never gets a larger timestep or length; the table has at least 8 bands,
\* each at most half the band before it; the slowest band gets the largest
\* timestep/length pair and the fastest the smallest.
C5_SpeedTable ==
    lastGran.op = "_setGranularity" =>
        /\ lastGran.status = "ok"
        /\ \A s \in Speeds :
              RatLE(s, lastGran.distance_moved) =>
                  /\ FirstPassTimestep(s, distance) # <<>>
                  /\ RatLE(timestep, FirstPassTimestep(s, distance)[1])
                  /\ RatLE(length, RatMul(NGran, FirstPassTimestep(s, distance)[1]))
                  /\ \/ timestep = FirstPassTimestep(s, distance)[1]
                     \/ RatLE(RatMul(2, timestep), FirstPassTimestep(s, distance)[1])
        /\ (\A s \in Speeds : RatLE(s, lastGran.distance_moved)) =>
              Cardinality({ FirstPassTimestep(s, distance) : s \in Speeds }) >= 8

\* The shrink factors the controller may apply.
Factors == {1, 2, 4, 6, 8, 16}

\* C6: _updateGranularity divides timestep and length by one factor out of
\* 1, 2, 4, 6, 8, 16 that never decreases as the residual grows, and by 2
\* once more exactly when the declination is below -75 or above 75.  Speed
\* 0.5 gives timestep 1/32 and length 2; a residual of 20 mas gives factor 6;
\* with declination -80 the length becomes 1/12 of what it was.
C6_Refine ==
    /\ \A r1, r2 \in Residuals : RatLE(r1, r2) => ShrinkFactor(r1) <= ShrinkFactor(r2)
    /\ Updated =>
          \E f \in Factors : \E h \in {1, 2} :
              /\ h = 2 <=> (lastGran.dec < -75 \/ lastGran.dec > 75)
              /\ f = ShrinkFactor(lastGran.p_resid)
              /\ RatMul(f * h, timestep) = lastGran.prevTimestep
              /\ RatMul(f * h, length) = lastGran.prevLength
    /\ (lastGran.op = "_setGranularity" /\ lastGran.distance_moved = Rat(1, 2)) =>
          (lastGran.status = "ok" /\ timestep = Rat(1, 32) /\ length = Rat(2, 1))
    /\ (Updated /\ lastGran.p_resid = Rat(20, 1)) =>
          /\ lastGran.dec = 0 => RatMul(6, timestep) = lastGran.prevTimestep
          /\ lastGran.dec = -80 => RatMul(12, length) = lastGran.prevLength

\* Speed 0.5, then a residual of 20 mas at declination -80: the length went
\* from 2 days to 1/6 day and the timestep from 1/32 to 1/384 day.
C6_Witness ==
    /\ Updated
    /\ lastGran.p_resid = Rat(20, 1) /\ lastGran.dec = -80
    /\ lastGran.prevTimestep = Rat(1, 32) /\ lastGran.prevLength = Rat(2, 1)
    /\ timestep = Rat(1, 384) /\ length = Rat(1, 6)

\* C7: every _updateGranularity call made because the residual exceeds
\* skyTolerance strictly decreases length (the object keeps no attempt count
\* and raises no convergence error, so nothing else can end the loop).
C7_RefinementShrinks ==
    (Updated /\ RatGT(lastGran.p_resid, skyTolerance)) => RatLT(length, lastGran.prevLength)

\* C10: once _setGranularity has been called, whatever the speed and the
\* _updateGranularity calls that follow, timestep and length exist and are
\* strictly positive, length is 64 timesteps, and no call has made either
\* larger than it was.
C10_GranularityState ==
    "ngran" \in attrs =>
        /\ {"timestep", "length"} \subseteq attrs
        /\ RatGT(timestep, Zero) /\ RatGT(length, Zero)
        /\ length = RatMul(64, timestep)
        /\ (lastGran.op = "_updateGranularity" /\ lastGran.hadTimestep) =>
              (RatLE(timestep, lastGran.prevTimestep) /\ RatLE(length, lastGran.prevLength))

---------------------------------------------------------------------------
(* Properties of the two load paths (specification SpecLoad).              *)

\* The required keys the input of the last load did not provide.
NotProvided == { k \in SeqRange(coeffKeys) :
                   IF lastLoad.op = "readCoefficients"
                      THEN FileColumn(k) \notin lastLoad.given
                      ELSE k \notin lastLoad.given }

\* C8: a load whose input lacks a required column or quantity fails, on
\* either load path; none completes successfully.
C8_LoadValidates ==
    (lastLoad.op \in {"setCoefficients", "readCoefficients"} /\ NotProvided # {})
        => lastLoad.status # "ok"

---------------------------------------------------------------------------
(* Properties of the unwrap helper (specification SpecUnwrap).             *)

\* The window spans both low (< 100) and high (> 270) values: the test the
\* helper makes on the minimum and maximum it is given.
Straddles == args.min < 100 /\ args.max > 270

\* C9: given the minimum and maximum of a window, the helper returns an
\* element above 270 less 360 when the window straddles the wrap, and every
\* other element unchanged; so each output differs from its input by 0 or
\* -360, and no element of a window that does not straddle the wrap changes.
C9_UnwrapRule ==
    returned # <<>> =>
        /\ (Straddles /\ args.element > 270) => returned[1] = args.element - 360
        /\ ~(Straddles /\ args.element > 270) => returned[1] = args.element
        /\ returned[1] - args.element \in {0, -360}
        /\ ~Straddles => returned[1] = args.element

\* An element above 270 of a window that runs from below 100 to above 270
\* came back less 360.
C9_Witness ==
    /\ returned # <<>>
    /\ Straddles
    /\ args.min <= args.element /\ args.element <= args.max
    /\ args.element > 270
    /\ returned[1] = args.element - 360

=============================================================================
